---- MODULE Spec2Model ----
(***************************************************************************)
(* Auto-image2text: cut.py (focus-aware crop of a folder of images) and    *)
(* tagger.py (rename, optional crop, captioning by a worker pool).         *)
(*                                                                         *)
(* Rectangles are tuples <<x, y, w, h>>, sizes are tuples <<w, h>>.        *)
(* Python's None, where a rectangle or an image may stand, is the empty    *)
(* tuple.  Half-pixel quantities (the code computes fx + fw / 2 in         *)
(* floating point) are carried doubled, so that int(c - t / 2) is the      *)
(* truncation toward zero of (2c - t) / 2.                                 *)
(***************************************************************************)
EXTENDS Integers, Sequences, FiniteSets, TLC

\* ------------------------------------------------------------------ bounds
\* files in one bulk_process batch
MaxFiles == 3
\* image sides in a batch
MaxDim == 2
\* target sides in a batch
MaxTarget == 2
\* image and target sides, and subject extents, in the single-image runs
PlanDim == 3
\* faces returned by one detectMultiScale call
MaxFaces == 2
\* image files in the folder tagger.py works on
MaxImages == 3

\* batch_process_images(folder_path, max_workers=3, ...)
max_workers == 3

None == << >>

\* no exception in flight
NoExc == "none"

Max(a, b) == IF a >= b THEN a ELSE b
Min(a, b) == IF a <= b THEN a ELSE b

\* ------------------------------------------------------- cut.py, functions

\* Python's int() on the float n2 / 2: truncation toward zero.
IntOfHalf(n2) == IF n2 >= 0 THEN n2 \div 2 ELSE -((-n2) \div 2)

Area(r) == r[3] * r[4]

\* max(faces, key=lambda x: x[2] * x[3]): the first face of maximum area.
detect_faces_first(faces) == IF Len(faces) > 0 THEN faces[1] ELSE None

detect_faces(faces) ==
    IF Len(faces) > 0
    THEN LET best == CHOOSE i \in 1..Len(faces) :
                        /\ \A j \in 1..Len(faces) : Area(faces[j]) <= Area(faces[i])
                        /\ \A j \in 1..(i - 1) : Area(faces[j]) < Area(faces[i])
         IN  faces[best]
    ELSE None

\* calculate_crop_region with the halves taken in integers (fw // 2, target_w // 2).
calculate_crop_region_inthalves(focus_box, image_size, target_size) ==
    LET img_w == image_size[1]
        img_h == image_size[2]
        target_w == target_size[1]
        target_h == target_size[2]
        start_x == (focus_box[1] + focus_box[3] \div 2) - target_w \div 2
        start_y == (focus_box[2] + focus_box[4] \div 2) - target_h \div 2
    IN  << Max(0, Min(start_x, img_w - target_w)),
           Max(0, Min(start_y, img_h - target_h)),
           Min(target_w, img_w), Min(target_h, img_h) >>

\* calculate_crop_region without the lower clamp max(0, ...).
calculate_crop_region_nomax(focus_box, image_size, target_size) ==
    LET img_w == image_size[1]
        img_h == image_size[2]
        target_w == target_size[1]
        target_h == target_size[2]
        start_x == IntOfHalf(2 * focus_box[1] + focus_box[3] - target_w)
        start_y == IntOfHalf(2 * focus_box[2] + focus_box[4] - target_h)
    IN  << Min(start_x, img_w - target_w), Min(start_y, img_h - target_h),
           Min(target_w, img_w), Min(target_h, img_h) >>

calculate_crop_region(focus_box, image_size, target_size) ==
    LET img_w == image_size[1]
        img_h == image_size[2]
        target_w == target_size[1]
        target_h == target_size[2]
        fx == focus_box[1]
        fy == focus_box[2]
        fw == focus_box[3]
        fh == focus_box[4]
        \* twice center_x = fx + fw / 2, twice center_y = fy + fh / 2
        center_x2 == 2 * fx + fw
        center_y2 == 2 * fy + fh
        \* int(center_x - target_w / 2)
        start_x0 == IntOfHalf(center_x2 - target_w)
        start_y0 == IntOfHalf(center_y2 - target_h)
        start_x == Max(0, Min(start_x0, img_w - target_w))
        start_y == Max(0, Min(start_y0, img_h - target_h))
        crop_w == Min(target_w, img_w)
        crop_h == Min(target_h, img_h)
    IN  <<start_x, start_y, crop_w, crop_h>>

\* The centre crop with the halves taken in integers (img_w // 2, target // 2).
center_crop_inthalves(image_size, target_size) ==
    << Max(0, Min(image_size[1] \div 2 - target_size[1] \div 2,
                  image_size[1] - target_size[1])),
       Max(0, Min(image_size[2] \div 2 - target_size[2] \div 2,
                  image_size[2] - target_size[2])),
       target_size[1], target_size[2] >>

\* process_image, the branch focus_box is None.
center_crop(image_size, target_size) ==
    LET img_w == image_size[1]
        img_h == image_size[2]
        \* int(img_w / 2 - target_size[0] / 2)
        start_x0 == IntOfHalf(img_w - target_size[1])
        start_y0 == IntOfHalf(img_h - target_size[2])
        start_x == Max(0, Min(start_x0, img_w - target_size[1]))
        start_y == Max(0, Min(start_y0, img_h - target_size[2]))
    IN  <<start_x, start_y, target_size[1], target_size[2]>>

\* The size test with "and" for "or".
is_undersized_and(image_size, target_size) ==
    image_size[1] < target_size[1] /\ image_size[2] < target_size[2]

\* process_image: img_w < target_w or img_h < target_h.
is_undersized(image_size, target_size) ==
    image_size[1] < target_size[1] \/ image_size[2] < target_size[2]

\* One axis of the numpy slice a[s : s + n] of an axis of length len: the
\* number of elements it yields (a negative index counts from the end).
SliceLen(s, n, len) ==
    LET norm(i) == IF i < 0 THEN Max(0, i + len) ELSE Min(i, len)
    IN  Max(0, norm(s + n) - norm(s))

\* image[y:y+h, x:x+w]: the size of the cropped array.
numpy_slice(image_size, region) ==
    << SliceLen(region[1], region[3], image_size[1]),
       SliceLen(region[2], region[4], image_size[2]) >>

\* except Exception: every exception the body raises is an Exception.
caught(e) == e \in {"ValueError", "DetectorError", "IOError"}

\* ----------------------------------------------------------- cut.py, state

VARIABLES
    target_size,        \* (target_w, target_h) of the batch
    nFiles,             \* len(file_paths)
    idx,                \* files bulk_process has finished with
    pc,                 \* where bulk_process / process_image stands
    env,                \* what the collaborators answer for the current file
    image,              \* the decoded image's (img_w, img_h), or None
    focus_box,          \* get_focus_box's answer
    crop_region,        \* the planned crop
    exc,                \* the exception in flight, or None
    outputs,            \* the files written, in order: [file, size, source]
    failures,           \* the files logged as failed, in order
    calls,              \* process_image calls made
    valid,              \* files that decode and whose resize and write work
    facesConsulted,     \* detect_faces ran for the current file
    saliencyConsulted,  \* detect_saliency ran for the current file
    planned,            \* a crop was planned for the current file
    propagated          \* an exception left bulk_process

cutVars == << target_size, nFiles, idx, pc, env, image, focus_box, crop_region,
              exc, outputs, failures, calls, valid, facesConsulted,
              saliencyConsulted, planned, propagated >>

VARIABLES
    platform,           \* "posix": os.rename replaces; "windows": it raises
    folder,             \* the names of the files in folder_path
    need_crop,          \* target_size was given
    tpc,                \* where tagger.py's main program stands
    to_rename,          \* rename_images: the sorted list to rename
    ridx,               \* rename_images: enumerate's idx
    image_files,        \* batch_process_images: the listed images
    cidx,               \* images the crop loop has handled
    temp,               \* the names of the files in folder_path/output
    tempExists,         \* folder_path/output exists
    tasks,              \* the pool's tasks: "queued", "writing" or "done"
    described,          \* the tasks that wrote a description
    captions,           \* caption files written: <<directory, name, image>>
    keep_cropped,       \* the answer to the keep-cropped prompt
    fidx,               \* images the finalisation loop has handled
    crashed,            \* the function an exception left the program from, or "no"
    clobbered,          \* rename_images: targets that existed when renamed onto
    imagesBefore        \* image files in the folder at the start

tagVars == << platform, folder, need_crop, tpc, to_rename, ridx, image_files, cidx,
              temp, tempExists, tasks, described, captions, keep_cropped, fidx,
              crashed, clobbered, imagesBefore >>

vars == << cutVars, tagVars >>

\* tagger.py is not running.
TaggerIdle ==
    /\ platform = "posix"
    /\ folder = {}
    /\ need_crop = FALSE
    /\ tpc = "off"
    /\ to_rename = << >>
    /\ ridx = 0
    /\ image_files = << >>
    /\ cidx = 0
    /\ temp = {}
    /\ tempExists = FALSE
    /\ tasks = << >>
    /\ described = {}
    /\ captions = {}
    /\ keep_cropped = FALSE
    /\ fidx = 0
    /\ crashed = "no"
    /\ clobbered = {}
    /\ imagesBefore = 0

\* What cv2 answers for one file: imread (decodable, img_w, img_h),
\* detectMultiScale (faces, or it raises), the saliency detector (a rectangle,
\* None, or it raises), and resize / makedirs / imwrite (they work or raise).
Environment(decodable, w, h, faces, faces_raise, salient, saliency_raise, io_raise) ==
    [ decodable |-> decodable, img_w |-> w, img_h |-> h, faces |-> faces,
      faces_raise |-> faces_raise, salient |-> salient,
      saliency_raise |-> saliency_raise, io_raise |-> io_raise ]

NoEnv == Environment(FALSE, 0, 0, << >>, FALSE, None, FALSE, FALSE)

Undecodable == NoEnv

\* The files of a batch: every size, one face, one salient region or nothing,
\* either detector raising, the write failing.
BatchFace == <<0, 0, 1, 1>>
BatchSalient == <<1, 0, 1, 2>>
BatchEnvs ==
    {Undecodable} \cup
    { Environment(TRUE, w, h, d[1], d[2], d[3], d[4], io) :
        w \in 1..MaxDim, h \in 1..MaxDim, io \in BOOLEAN,
        d \in { << <<BatchFace>>, FALSE, None, FALSE >>,
                << << >>, FALSE, BatchSalient, FALSE >>,
                << << >>, FALSE, None, FALSE >>,
                << << >>, TRUE, None, FALSE >>,
                << << >>, FALSE, None, TRUE >> } }

Idle(n, t) ==
    /\ target_size = t
    /\ nFiles = n
    /\ idx = 0
    /\ pc = "loop"
    /\ env = NoEnv
    /\ image = None
    /\ focus_box = None
    /\ crop_region = None
    /\ exc = NoExc
    /\ outputs = << >>
    /\ failures = << >>
    /\ calls = 0
    /\ valid = {}
    /\ facesConsulted = FALSE
    /\ saliencyConsulted = FALSE
    /\ planned = FALSE
    /\ propagated = FALSE

\* cut.py is not running.
CutIdle == Idle(0, <<1, 1>>)

\* bulk_process(input_dir, output_dir, target_size, recursive) is entered with
\* file_paths collected.
Init ==
    /\ \E n \in 0..MaxFiles, tw \in 1..MaxTarget, th \in 1..MaxTarget :
          Idle(n, <<tw, th>>)
    /\ TaggerIdle

\* -------------------------------------------------- cut.py, bulk_process

\* for input_path in file_paths: process_image(input_path, output_path, ...)
Call(e) ==
    /\ env' = e
    /\ calls' = calls + 1
    /\ valid' = IF e.decodable /\ ~e.io_raise THEN valid \cup {calls + 1} ELSE valid
    /\ image' = None
    /\ focus_box' = None
    /\ crop_region' = None
    /\ exc' = NoExc
    /\ facesConsulted' = FALSE
    /\ saliencyConsulted' = FALSE
    /\ planned' = FALSE
    /\ pc' = "imread"

BulkNext ==
    /\ UNCHANGED tagVars
    /\ pc = "loop"
    /\ idx < nFiles
    /\ \E e \in BatchEnvs : Call(e)
    /\ UNCHANGED << target_size, nFiles, idx, outputs, failures, propagated >>

BulkDone ==
    /\ UNCHANGED tagVars
    /\ pc = "loop"
    /\ idx = nFiles
    /\ pc' = "done"
    /\ UNCHANGED << target_size, nFiles, idx, env, image, focus_box, crop_region,
                    exc, outputs, failures, calls, valid, facesConsulted,
                    saliencyConsulted, planned, propagated >>

\* -------------------------------------------------- cut.py, process_image

Raise(e) ==
    /\ exc' = e
    /\ pc' = "except"

\* image = cv2.imread(input_path); if image is None: raise ValueError
Imread ==
    /\ UNCHANGED tagVars
    /\ pc = "imread"
    /\ IF env.decodable
       THEN /\ image' = <<env.img_w, env.img_h>>
            /\ pc' = "size"
            /\ exc' = exc
       ELSE /\ Raise("ValueError")
            /\ image' = image
    /\ UNCHANGED << target_size, nFiles, idx, env, focus_box, crop_region, outputs,
                    failures, calls, valid, facesConsulted, saliencyConsulted,
                    planned, propagated >>

\* if img_w < target_w or img_h < target_h
SizeCheck ==
    /\ UNCHANGED tagVars
    /\ pc = "size"
    /\ pc' = IF is_undersized(image, target_size) THEN "stretch" ELSE "faces"
    /\ UNCHANGED << target_size, nFiles, idx, env, image, focus_box, crop_region,
                    exc, outputs, failures, calls, valid, facesConsulted,
                    saliencyConsulted, planned, propagated >>

\* resized = cv2.resize(image, target_size, ...); makedirs; imwrite; return
Stretch ==
    /\ UNCHANGED tagVars
    /\ pc = "stretch"
    /\ IF env.io_raise
       THEN /\ Raise("IOError")
            /\ outputs' = outputs
       ELSE /\ outputs' = Append(outputs, [ file |-> calls, size |-> target_size,
                                            source |-> <<0, 0, image[1], image[2]>> ])
            /\ pc' = "finally"
            /\ exc' = exc
    /\ UNCHANGED << target_size, nFiles, idx, env, image, focus_box, crop_region,
                    failures, calls, valid, facesConsulted, saliencyConsulted,
                    planned, propagated >>

\* get_focus_box: face_box = detect_faces(image); if face_box is not None: return
DetectFaces ==
    /\ UNCHANGED tagVars
    /\ pc = "faces"
    /\ facesConsulted' = TRUE
    /\ IF env.faces_raise
       THEN /\ Raise("DetectorError")
            /\ focus_box' = focus_box
       ELSE /\ focus_box' = detect_faces(env.faces)
            /\ pc' = IF detect_faces(env.faces) # None THEN "plan" ELSE "saliency"
            /\ exc' = exc
    /\ UNCHANGED << target_size, nFiles, idx, env, image, crop_region, outputs,
                    failures, calls, valid, saliencyConsulted, planned, propagated >>

\* get_focus_box: return detect_saliency(image)
DetectSaliency ==
    /\ UNCHANGED tagVars
    /\ pc = "saliency"
    /\ saliencyConsulted' = TRUE
    /\ IF env.saliency_raise
       THEN /\ Raise("DetectorError")
            /\ focus_box' = focus_box
       ELSE /\ focus_box' = env.salient
            /\ pc' = "plan"
            /\ exc' = exc
    /\ UNCHANGED << target_size, nFiles, idx, env, image, crop_region, outputs,
                    failures, calls, valid, facesConsulted, planned, propagated >>

\* if focus_box is None: (centre crop) else: calculate_crop_region(...)
PlanCrop ==
    /\ UNCHANGED tagVars
    /\ pc = "plan"
    /\ crop_region' = IF focus_box = None
                      THEN center_crop(image, target_size)
                      ELSE calculate_crop_region(focus_box, image, target_size)
    /\ planned' = TRUE
    /\ pc' = "slice"
    /\ UNCHANGED << target_size, nFiles, idx, env, image, focus_box, exc, outputs,
                    failures, calls, valid, facesConsulted, saliencyConsulted,
                    propagated >>

\* cropped = image[y:y+h, x:x+w]; resize (an empty crop raises); makedirs; imwrite
SliceResizeWrite ==
    /\ UNCHANGED tagVars
    /\ pc = "slice"
    /\ LET cropped == numpy_slice(image, crop_region)
       IN  IF env.io_raise \/ cropped[1] = 0 \/ cropped[2] = 0
           THEN /\ Raise("IOError")
                /\ outputs' = outputs
           ELSE /\ outputs' = Append(outputs, [ file |-> calls, size |-> target_size,
                        source |-> << crop_region[1], crop_region[2],
                                      cropped[1], cropped[2] >> ])
                /\ pc' = "finally"
                /\ exc' = exc
    /\ UNCHANGED << target_size, nFiles, idx, env, image, focus_box, crop_region,
                    failures, calls, valid, facesConsulted, saliencyConsulted,
                    planned, propagated >>

\* except Exception as e: print("[错误] 处理失败 ...")
Except ==
    /\ UNCHANGED tagVars
    /\ pc = "except"
    /\ IF caught(exc)
       THEN /\ failures' = Append(failures, calls)
            /\ exc' = NoExc
       ELSE /\ failures' = failures
            /\ exc' = exc
    /\ pc' = "finally"
    /\ UNCHANGED << target_size, nFiles, idx, env, image, focus_box, crop_region,
                    outputs, calls, valid, facesConsulted, saliencyConsulted,
                    planned, propagated >>

\* finally: del image; then back in bulk_process's loop, or the exception
\* that was not caught leaves bulk_process.
Finally ==
    /\ UNCHANGED tagVars
    /\ pc = "finally"
    /\ image' = None
    /\ IF exc = NoExc
       THEN /\ idx' = idx + 1
            /\ pc' = "loop"
            /\ propagated' = propagated
       ELSE /\ propagated' = TRUE
            /\ pc' = "done"
            /\ idx' = idx
    /\ UNCHANGED << target_size, nFiles, env, focus_box, crop_region, exc, outputs,
                    failures, calls, valid, facesConsulted, saliencyConsulted,
                    planned >>

ProcessImage ==
    \/ Imread
    \/ SizeCheck
    \/ Stretch
    \/ DetectFaces
    \/ DetectSaliency
    \/ PlanCrop
    \/ SliceResizeWrite
    \/ Except
    \/ Finally

Next == BulkNext \/ BulkDone \/ ProcessImage

Spec == Init /\ [][Next]_vars

\* ------------------------------------------- cut.py, one process_image call

\* Subject rectangles in and around the image: origins from two pixels left of
\* (above) the image to one pixel past it, extents from 0 to PlanDim.
PlanRects ==
    { <<x, y, w, h>> : x \in (0 - 2)..(PlanDim + 1), y \in (0 - 2)..(PlanDim + 1),
                       w \in 0..PlanDim, h \in 0..PlanDim }

\* Faces of areas 1, 2, 2 and 4 for the choice among several.
SelectFaces == { <<0, 0, 1, 1>>, <<1, 0, 1, 2>>, <<0, 1, 2, 1>>, <<1, 1, 2, 2>> }

SeqsUpTo(S, n) == UNION { [1..k -> S] : k \in 0..n }

PlanEnvs ==
    \* geometry: one subject anywhere, or none
    { Environment(TRUE, w, h, <<r>>, FALSE, None, FALSE, FALSE) :
        w \in 1..PlanDim, h \in 1..PlanDim, r \in PlanRects }
    \cup
    { Environment(TRUE, w, h, << >>, FALSE, None, FALSE, FALSE) :
        w \in 1..PlanDim, h \in 1..PlanDim }
    \cup
    \* selection: several faces, a salient region or none
    { Environment(TRUE, PlanDim, PlanDim, fs, FALSE, s, FALSE, FALSE) :
        fs \in SeqsUpTo(SelectFaces, MaxFaces), s \in {None, <<0, 0, 2, 2>>} }
    \cup
    \* failures: no image, a detector raising, the write raising
    { Undecodable,
      Environment(TRUE, PlanDim, PlanDim, << >>, TRUE, None, FALSE, FALSE),
      Environment(TRUE, PlanDim, PlanDim, << >>, FALSE, None, TRUE, FALSE),
      Environment(TRUE, PlanDim, PlanDim, << >>, FALSE, None, FALSE, TRUE),
      Environment(TRUE, 1, 1, << >>, FALSE, None, FALSE, TRUE) }

\* process_image(input_path, output_path, target_size) is entered.
PlanInit ==
    \E tw \in 1..PlanDim, th \in 1..PlanDim, e \in PlanEnvs :
        /\ TaggerIdle
        /\ target_size = <<tw, th>>
        /\ nFiles = 1
        /\ idx = 0
        /\ pc = "imread"
        /\ env = e
        /\ image = None
        /\ focus_box = None
        /\ crop_region = None
        /\ exc = NoExc
        /\ outputs = << >>
        /\ failures = << >>
        /\ calls = 1
        /\ valid = IF e.decodable /\ ~e.io_raise THEN {1} ELSE {}
        /\ facesConsulted = FALSE
        /\ saliencyConsulted = FALSE
        /\ planned = FALSE
        /\ propagated = FALSE

PlanNext == ProcessImage

PlanSpec == PlanInit /\ [][PlanNext]_vars

\* ------------------------------------------------------- cut.py, properties

ImageSize == <<env.img_w, env.img_h>>

\* get_focus_box has returned for the current file.
FocusKnown == pc \in {"plan", "slice"} \/ planned

OutputsOf(f) == { i \in DOMAIN outputs : outputs[i].file = f }
FailuresOf(f) == { i \in DOMAIN failures : failures[i] = f }

\* process_image has finished with the current file.
Returned == calls > 0 /\ pc \in {"loop", "done"}

\* C1: whenever process_image has planned a crop (so target_w <= W and
\* target_h <= H), for any subject rectangle, also one partly outside the image,
\* or none, the region (x, y, w, h) lies inside the image, 0 <= x, 0 <= y,
\* x + w <= W, y + h <= H, its extent is the target's, and the pixels the slice
\* takes are that region; a subject centred at (5, 5) on a 1000 x 1000 image
\* with target (200, 200) gives origin (0, 0).
C1_CropInsideImage ==
    /\ planned =>
          /\ 0 <= crop_region[1]
          /\ 0 <= crop_region[2]
          /\ crop_region[1] + crop_region[3] <= env.img_w
          /\ crop_region[2] + crop_region[4] <= env.img_h
          /\ <<crop_region[3], crop_region[4]>> = target_size
          /\ \A i \in OutputsOf(calls) : outputs[i].source = crop_region
    /\ calculate_crop_region(<<0, 0, 10, 10>>, <<1000, 1000>>, <<200, 200>>)
          = <<0, 0, 200, 200>>

\* A subject sticking out of the top left corner was cropped at origin (0, 0).
C1_Witness ==
    /\ planned
    /\ focus_box # None
    /\ focus_box[1] < 0
    /\ focus_box[2] < 0
    /\ crop_region[1] = 0
    /\ crop_region[2] = 0
    /\ Len(outputs) = 1

\* The subject's centre, doubled, lies at least target / 2 from every edge.
WellInside ==
    /\ focus_box # None
    /\ 2 * focus_box[1] + focus_box[3] >= target_size[1]
    /\ 2 * env.img_w - (2 * focus_box[1] + focus_box[3]) >= target_size[1]
    /\ 2 * focus_box[2] + focus_box[4] >= target_size[2]
    /\ 2 * env.img_h - (2 * focus_box[2] + focus_box[4]) >= target_size[2]

\* C4 as stated: for a subject whose centre lies at least target / 2 from every
\* edge the crop's centre (start + target / 2) is the subject's centre exactly,
\* whatever the parities of w, h, target_w and target_h.
C4_ExactCentring ==
    (planned /\ WellInside) =>
        /\ 2 * crop_region[1] + target_size[1] = 2 * focus_box[1] + focus_box[3]
        /\ 2 * crop_region[2] + target_size[2] = 2 * focus_box[2] + focus_box[4]

\* C4 as amended: for such a subject the crop's centre is the subject's centre
\* exactly on an axis where the subject's extent and the target's have the same
\* parity, and exactly half a pixel less than it where the parities differ.
C4_CentredToHalfPixel ==
    (planned /\ WellInside) =>
        /\ 2 * crop_region[1] + target_size[1] = 2 * focus_box[1] + focus_box[3]
              - (IF (focus_box[3] + target_size[1]) % 2 = 0 THEN 0 ELSE 1)
        /\ 2 * crop_region[2] + target_size[2] = 2 * focus_box[2] + focus_box[4]
              - (IF (focus_box[4] + target_size[2]) % 2 = 0 THEN 0 ELSE 1)

\* A well-inside subject of odd width was cropped to an even target width.
C4_Witness ==
    /\ planned
    /\ WellInside
    /\ focus_box[3] % 2 = 1
    /\ target_size[1] % 2 = 0
    /\ focus_box[4] % 2 = target_size[2] % 2

\* The reference of the specification's section 4.1: floor, then clamp.
Clamp(v, lo, hi) == Max(lo, Min(v, hi))

Floor2(n2) == IF n2 % 2 = 0 THEN n2 \div 2 ELSE (n2 - 1) \div 2

plan_crop(subject, image_size, target) ==
    LET cx2 == IF subject = None THEN image_size[1] ELSE 2 * subject[1] + subject[3]
        cy2 == IF subject = None THEN image_size[2] ELSE 2 * subject[2] + subject[4]
    IN  << Clamp(Floor2(cx2 - target[1]), 0, image_size[1] - target[1]),
           Clamp(Floor2(cy2 - target[2]), 0, image_size[2] - target[2]),
           Min(target[1], image_size[1]), Min(target[2], image_size[2]) >>

\* C6: the crop the code plans is the reference's: origin clamp(floor(c - t / 2),
\* 0, W - t) on each axis with c the subject's midpoint (the image's without a
\* subject), extent min(target, image); calculate_crop_region agrees with the
\* reference on every rectangle, also where int() and floor differ; the inline
\* centre crop agrees with calculate_crop_region on a subject whose midpoint is
\* the image's; no subject, 1000 x 1000, target (400, 300) gives (300, 350, 400, 300).
C6_MatchesReference ==
    /\ planned => crop_region = plan_crop(focus_box, ImageSize, target_size)
    /\ env.decodable =>
          \A i \in DOMAIN env.faces :
              calculate_crop_region(env.faces[i], ImageSize, target_size)
                  = plan_crop(env.faces[i], ImageSize, target_size)
    /\ (env.decodable /\ env.img_w >= target_size[1] /\ env.img_h >= target_size[2]) =>
          /\ center_crop(ImageSize, target_size)
                = calculate_crop_region(<<0, 0, env.img_w, env.img_h>>,
                                        ImageSize, target_size)
          /\ (env.img_w % 2 = 0 /\ env.img_h % 2 = 0) =>
                center_crop(ImageSize, target_size)
                    = calculate_crop_region(<<env.img_w \div 2, env.img_h \div 2, 0, 0>>,
                                            ImageSize, target_size)
    /\ center_crop(<<1000, 1000>>, <<400, 300>>) = <<300, 350, 400, 300>>

\* A crop was planned where int() and floor differ: centre minus half the target
\* is negative and not whole.
C6_Witness ==
    /\ planned
    /\ focus_box # None
    /\ 2 * focus_box[1] + focus_box[3] - target_size[1] < 0
    /\ (2 * focus_box[1] + focus_box[3] - target_size[1]) % 2 = 1
    /\ crop_region[1] = 0

\* C8: once get_focus_box has returned: with at least one face detected the
\* subject is a detected face of maximum area and detect_saliency did not run;
\* with no face it is the salient region; it is None only when there is neither.
\* Of two faces of areas 100 and 400 the one of area 400 is taken.
C8_SubjectPriority ==
    /\ saliencyConsulted => Len(env.faces) = 0
    /\ FocusKnown =>
          /\ Len(env.faces) > 0 =>
                /\ \E i \in DOMAIN env.faces : focus_box = env.faces[i]
                /\ \A j \in DOMAIN env.faces : Area(env.faces[j]) <= Area(focus_box)
                /\ ~saliencyConsulted
          /\ Len(env.faces) = 0 =>
                /\ saliencyConsulted
                /\ focus_box = env.salient
          /\ focus_box = None <=> (Len(env.faces) = 0 /\ env.salient = None)
    /\ detect_faces(<< <<0, 0, 10, 10>>, <<50, 50, 20, 20>> >>) = <<50, 50, 20, 20>>

\* Two faces were detected, the second the larger, and it became the subject.
C8_Witness ==
    /\ planned
    /\ Len(env.faces) = 2
    /\ Area(env.faces[1]) < Area(env.faces[2])
    /\ focus_box = env.faces[2]
    /\ env.salient # None

\* The current file decoded to an image smaller than the target on some side.
Undersized ==
    /\ env.decodable
    /\ (env.img_w < target_size[1] \/ env.img_h < target_size[2])

\* C7: for an image with W < target_w or H < target_h neither detector runs and
\* no crop is planned; at most one output is written, and when process_image has
\* finished (the resize and the write not failing) exactly one, of size
\* target_w x target_h, made from the whole image; so a crop is only ever planned
\* with target_w <= W and target_h <= H.
C7_UndersizedBypass ==
    /\ Undersized =>
          /\ ~facesConsulted
          /\ ~saliencyConsulted
          /\ ~planned
          /\ pc \notin {"faces", "saliency", "plan", "slice"}
          /\ Cardinality(OutputsOf(calls)) <= 1
          /\ (Returned /\ ~env.io_raise) =>
                /\ Cardinality(OutputsOf(calls)) = 1
                /\ \A i \in OutputsOf(calls) :
                      /\ outputs[i].size = target_size
                      /\ outputs[i].source = <<0, 0, env.img_w, env.img_h>>
    /\ FocusKnown => (target_size[1] <= env.img_w /\ target_size[2] <= env.img_h)

\* An image too narrow but tall enough was stretched to the target.
C7_Witness ==
    /\ Returned
    /\ env.decodable
    /\ env.img_w < target_size[1]
    /\ env.img_h >= target_size[2]
    /\ Cardinality(OutputsOf(calls)) = 1
    /\ ~facesConsulted

\* C2: when bulk_process is over, process_image was called on every file, no
\* exception left bulk_process, every file that decodes and whose resize and
\* write work has one output and no logged failure, every other file has one
\* logged failure and no output.
C2_BatchIsolation ==
    pc = "done" =>
        /\ ~propagated
        /\ calls = nFiles
        /\ \A f \in 1..nFiles :
              IF f \in valid
              THEN Cardinality(OutputsOf(f)) = 1 /\ FailuresOf(f) = {}
              ELSE Cardinality(FailuresOf(f)) = 1 /\ OutputsOf(f) = {}

\* What does hold of a batch: every file is visited, nothing propagates, and each
\* file ends with either one output or one logged failure.
BatchIsolationCore ==
    pc = "done" =>
        /\ ~propagated
        /\ calls = nFiles
        /\ \A f \in 1..nFiles :
              Cardinality(OutputsOf(f)) + Cardinality(FailuresOf(f)) = 1
        /\ \A f \in 1..nFiles : f \notin valid => OutputsOf(f) = {}

\* A detector raised for the current file.
DetectionRaised ==
    \/ facesConsulted /\ env.faces_raise
    \/ saliencyConsulted /\ env.saliency_raise

\* C3: when the subject locator raised, process_image goes on as with no
\* subject: no failure is logged for the file and (the write working) the
\* centre crop is written at the target size.
C3_DetectionFailureDegrades ==
    (DetectionRaised /\ Returned) =>
        /\ FailuresOf(calls) = {}
        /\ ~env.io_raise =>
              \E i \in OutputsOf(calls) :
                  /\ outputs[i].size = target_size
                  /\ outputs[i].source = center_crop(ImageSize, target_size)

\* ---------------------------------------------------- tagger.py, functions

\* File names are sequences of code points: "0" is 48, "." is 46, "A" is 65,
\* "a" is 97.

\* str.lower() on ASCII
lower(str) == [ i \in DOMAIN str |-> IF str[i] \in 65..90 THEN str[i] + 32 ELSE str[i] ]

\* os.path.splitext on a base name: split before the last dot, unless only dots
\* come before it.
splitext(p) ==
    LET dots == { i \in DOMAIN p : p[i] = 46 }
        last == CHOOSE i \in dots : \A j \in dots : j <= i
    IN  IF dots = {} \/ (\A j \in 1..(last - 1) : p[j] = 46)
        THEN << p, << >> >>
        ELSE << SubSeq(p, 1, last - 1), SubSeq(p, last, Len(p)) >>

\* str.endswith(suffix)
endswith(str, suffix) ==
    /\ Len(suffix) <= Len(str)
    /\ SubSeq(str, Len(str) - Len(suffix) + 1, Len(str)) = suffix

\* image_extensions = (".jpg", ".jpeg", ".png", ".bmp", ".webp")
image_extensions ==
    { <<46, 106, 112, 103>>, <<46, 106, 112, 101, 103>>, <<46, 112, 110, 103>>,
      <<46, 98, 109, 112>>, <<46, 119, 101, 98, 112>> }

\* ".txt"
txt_ext == <<46, 116, 120, 116>>

\* re.match(r'^\d{3}$', name)
three_digits(name) == Len(name) = 3 /\ \A i \in 1..3 : name[i] \in 48..57

\* f"{idx:03d}" for idx < 1000
format_03d(n) ==
    << 48 + ((n \div 100) % 10), 48 + ((n \div 10) % 10), 48 + (n % 10) >>

\* a < b for str: the first differing code point decides, a proper prefix is less.
str_less(a, b) ==
    \E k \in 1..(Len(b)) :
        /\ \A j \in 1..(k - 1) : j <= Len(a) /\ a[j] = b[j]
        /\ (k > Len(a) \/ (k <= Len(a) /\ a[k] < b[k]))
        /\ k - 1 <= Len(a)

Orderings(S) ==
    { q \in [1..Cardinality(S) -> S] : \A i, j \in DOMAIN q : i # j => q[i] # q[j] }

\* list.sort()
sorted(S) ==
    CHOOSE q \in Orderings(S) : \A i, j \in DOMAIN q : i < j => str_less(q[i], q[j])

\* rename_images: f is a file to rename (a directory and a non-image are passed
\* over, and so is a name of three digits).
needs_rename(f) ==
    /\ lower(splitext(f)[2]) \in image_extensions
    /\ ~three_digits(splitext(f)[1])

\* rename_images: new_name = f"{idx:03d}{ext}" with ext lowered
new_name(i, filename) == format_03d(i) \o lower(splitext(filename)[2])

\* batch_process_images: f.lower().endswith(image_extensions)
is_image(f) == \E e \in image_extensions : endswith(lower(f), e)

\* process_image: txt_path = os.path.splitext(image_path)[0] + ".txt"
caption_name(image_name) == splitext(image_name)[1] \o txt_ext

\* The folders the check starts from: files among 001.jpg, 001.png, a.jpg,
\* a.png, b.JPG and a.txt.
NamePool ==
    { <<48, 48, 49, 46, 106, 112, 103>>, <<48, 48, 49, 46, 112, 110, 103>>,
      <<97, 46, 106, 112, 103>>, <<97, 46, 112, 110, 103>>,
      <<98, 46, 74, 80, 71>>, <<97, 46, 116, 120, 116>> }

Images(S) == { f \in S : is_image(f) }

\* ------------------------------------------------- tagger.py, main program

\* The main program has the API key, the folder and the crop question answered
\* and is about to call rename_images(folder_path).
TaggerInit ==
    /\ CutIdle
    /\ \E S \in SUBSET NamePool, os \in {"posix", "windows"}, crop \in BOOLEAN :
          /\ Cardinality(Images(S)) <= MaxImages
          /\ platform = os
          /\ folder = S
          /\ need_crop = crop
          /\ imagesBefore = Cardinality(Images(S))
    /\ tpc = "rename"
    /\ to_rename = << >>
    /\ ridx = 0
    /\ image_files = << >>
    /\ cidx = 0
    /\ temp = {}
    /\ tempExists = FALSE
    /\ tasks = << >>
    /\ described = {}
    /\ captions = {}
    /\ keep_cropped = FALSE
    /\ fidx = 0
    /\ crashed = "no"
    /\ clobbered = {}

\* The content src now stands in the caption file name of directory dir.
WriteAt(caps, dir, name, src) ==
    { c \in caps : ~(c[1] = dir /\ c[2] = name) } \cup { <<dir, name, src>> }

RemoveAt(caps, dir, name) == { c \in caps : ~(c[1] = dir /\ c[2] = name) }

\* rename_images: files = os.listdir(folder_path); ...; to_rename.sort()
RenameScan ==
    /\ tpc = "rename"
    /\ to_rename' = sorted({ f \in folder : needs_rename(f) })
    /\ ridx' = 1
    /\ tpc' = "renaming"
    /\ UNCHANGED << platform, folder, need_crop, image_files, cidx, temp, tempExists,
                    tasks, described, captions, keep_cropped, fidx, crashed,
                    clobbered, imagesBefore >>
    /\ UNCHANGED cutVars

\* for idx, filename in enumerate(to_rename, 1): ... os.rename(old_path, new_path).
\* os.rename onto an existing file replaces it on POSIX and raises
\* FileExistsError on Windows, which nothing catches.
RenameStep ==
    /\ tpc = "renaming"
    /\ ridx <= Len(to_rename)
    /\ LET old == to_rename[ridx]
           new == new_name(ridx, old)
       IN  IF old = new
           THEN UNCHANGED << folder, clobbered, crashed, tpc >>
           ELSE IF new \in folder
                THEN /\ clobbered' = clobbered \cup {new}
                     /\ IF platform = "windows"
                        THEN /\ crashed' = "rename_images"
                             /\ tpc' = "crashed"
                             /\ folder' = folder
                        ELSE /\ folder' = folder \ {old}
                             /\ UNCHANGED << crashed, tpc >>
                ELSE /\ folder' = (folder \ {old}) \cup {new}
                     /\ UNCHANGED << clobbered, crashed, tpc >>
    /\ ridx' = ridx + 1
    /\ UNCHANGED << platform, need_crop, to_rename, image_files, cidx, temp,
                    tempExists, tasks, described, captions, keep_cropped, fidx,
                    imagesBefore >>
    /\ UNCHANGED cutVars

\* return True
RenameDone ==
    /\ tpc = "renaming"
    /\ ridx > Len(to_rename)
    /\ tpc' = "list"
    /\ UNCHANGED << platform, folder, need_crop, to_rename, ridx, image_files, cidx,
                    temp, tempExists, tasks, described, captions, keep_cropped, fidx,
                    crashed, clobbered, imagesBefore >>
    /\ UNCHANGED cutVars

\* batch_process_images: image_files = [... for f in os.listdir(folder_path) if
\* f.lower().endswith(image_extensions)], in the order listdir gives.
ListImages ==
    /\ tpc = "list"
    /\ image_files' \in Orderings(Images(folder))
    /\ tpc' = IF need_crop THEN "mktemp" ELSE "submit"
    /\ UNCHANGED << platform, folder, need_crop, to_rename, ridx, cidx, temp,
                    tempExists, tasks, described, captions, keep_cropped, fidx,
                    crashed, clobbered, imagesBefore >>
    /\ UNCHANGED cutVars

\* if target_size: temp_folder = folder_path/output; os.makedirs(temp_folder)
MakeTemp ==
    /\ tpc = "mktemp"
    /\ tempExists' = TRUE
    /\ cidx' = 0
    /\ tpc' = "crop"
    /\ UNCHANGED << platform, folder, need_crop, to_rename, ridx, image_files, temp,
                    tasks, described, captions, keep_cropped, fidx, crashed,
                    clobbered, imagesBefore >>
    /\ UNCHANGED cutVars

\* cut_image(image_path, output_path, target_size): cut.process_image writes
\* the cropped file, or logs a failure and writes nothing; the path is appended
\* to cropped_files either way.
CropStep ==
    /\ tpc = "crop"
    /\ cidx < Len(image_files)
    /\ \E written \in BOOLEAN :
          temp' = IF written THEN temp \cup {image_files[cidx + 1]} ELSE temp
    /\ cidx' = cidx + 1
    /\ UNCHANGED << platform, folder, need_crop, tpc, to_rename, ridx, image_files,
                    tempExists, tasks, described, captions, keep_cropped, fidx,
                    crashed, clobbered, imagesBefore >>
    /\ UNCHANGED cutVars

\* futures = [executor.submit(process_image, image_path, api_key) for ...]
Submit ==
    /\ \/ tpc = "submit"
       \/ tpc = "crop" /\ cidx = Len(image_files)
    /\ tasks' = [ i \in DOMAIN image_files |-> "queued" ]
    /\ tpc' = "pool"
    /\ UNCHANGED << platform, folder, need_crop, to_rename, ridx, image_files, cidx,
                    temp, tempExists, described, captions, keep_cropped, fidx,
                    crashed, clobbered, imagesBefore >>
    /\ UNCHANGED cutVars

\* The directory the pool's tasks read images from and write captions to.
WorkDir == IF need_crop THEN "temp" ELSE "folder"

Writing == { i \in DOMAIN tasks : tasks[i] = "writing" }

\* A worker takes the next queued task: process_image(image_path, api_key) up to
\* open(txt_path, "w").  describe_image returns None when the file cannot be
\* read or the request fails, and the image is passed over.
TaskRun(i) ==
    /\ tpc = "pool"
    /\ tasks[i] = "queued"
    /\ \A j \in 1..(i - 1) : tasks[j] # "queued"
    /\ Cardinality(Writing) < max_workers
    /\ LET name == image_files[i]
           readable == IF need_crop THEN name \in temp ELSE name \in folder
       IN  \E description \in BOOLEAN :
              /\ description => readable
              /\ IF description
                 THEN /\ tasks' = [tasks EXCEPT ![i] = "writing"]
                      /\ captions' = WriteAt(captions, WorkDir, caption_name(name), << >>)
                      /\ temp' = IF need_crop THEN temp \cup {caption_name(name)} ELSE temp
                      /\ folder' = IF need_crop THEN folder
                                   ELSE folder \cup {caption_name(name)}
                 ELSE /\ tasks' = [tasks EXCEPT ![i] = "done"]
                      /\ UNCHANGED << captions, temp, folder >>
    /\ UNCHANGED << platform, need_crop, tpc, to_rename, ridx, image_files, cidx,
                    tempExists, described, keep_cropped, fidx, crashed, clobbered,
                    imagesBefore >>
    /\ UNCHANGED cutVars

\* f.write(description) and the file is closed
TaskWrite(i) ==
    /\ tpc = "pool"
    /\ tasks[i] = "writing"
    /\ tasks' = [tasks EXCEPT ![i] = "done"]
    /\ captions' = WriteAt(captions, WorkDir, caption_name(image_files[i]), image_files[i])
    /\ described' = described \cup {i}
    /\ UNCHANGED << platform, folder, need_crop, tpc, to_rename, ridx, image_files,
                    cidx, temp, tempExists, keep_cropped, fidx, crashed, clobbered,
                    imagesBefore >>
    /\ UNCHANGED cutVars

\* for future in futures: future.result(); the with block ends
PoolJoin ==
    /\ tpc = "pool"
    /\ \A i \in DOMAIN tasks : tasks[i] = "done"
    /\ tpc' = IF need_crop THEN "prompt" ELSE "finished"
    /\ UNCHANGED << platform, folder, need_crop, to_rename, ridx, image_files, cidx,
                    temp, tempExists, tasks, described, captions, keep_cropped, fidx,
                    crashed, clobbered, imagesBefore >>
    /\ UNCHANGED cutVars

\* keep_cropped = input(...).lower().strip() == 'y'
Prompt ==
    /\ tpc = "prompt"
    /\ keep_cropped' \in BOOLEAN
    /\ fidx' = 0
    /\ tpc' = "finalise"
    /\ UNCHANGED << platform, folder, need_crop, to_rename, ridx, image_files, cidx,
                    temp, tempExists, tasks, described, captions, crashed,
                    clobbered, imagesBefore >>
    /\ UNCHANGED cutVars

\* The content of the caption file name of directory dir.
ContentAt(caps, dir, name) == (CHOOSE c \in caps : c[1] = dir /\ c[2] = name)[3]

\* for original_path, cropped_path in original_to_cropped.items(): move the
\* caption if there is one, then os.rename(cropped_path, original_path) or
\* remove the cropped file.  os.rename raises FileNotFoundError when the source
\* is missing and, on Windows, FileExistsError when the target exists.
FinaliseStep ==
    /\ tpc = "finalise"
    /\ fidx < Len(image_files)
    /\ LET original == image_files[fidx + 1]
           txt == caption_name(original)
           has_txt == txt \in temp
           txt_raises == has_txt /\ txt \in folder /\ platform = "windows"
           moved == has_txt /\ ~txt_raises
           temp1 == IF moved THEN temp \ {txt} ELSE temp
           folder1 == IF moved THEN folder \cup {txt} ELSE folder
           captions1 == IF moved
                        THEN WriteAt(RemoveAt(captions, "temp", txt), "folder", txt,
                                     ContentAt(captions, "temp", txt))
                        ELSE captions
           image_raises == keep_cropped /\ (original \notin temp1 \/ platform = "windows")
       IN  /\ temp' = IF txt_raises \/ image_raises THEN temp1 ELSE temp1 \ {original}
           /\ folder' = folder1
           /\ captions' = captions1
           /\ IF txt_raises \/ image_raises
              THEN /\ crashed' = "batch_process_images"
                   /\ tpc' = "crashed"
                   /\ fidx' = fidx
              ELSE /\ fidx' = fidx + 1
                   /\ UNCHANGED << crashed, tpc >>
    /\ UNCHANGED << platform, need_crop, to_rename, ridx, image_files, cidx,
                    tempExists, tasks, described, keep_cropped, clobbered,
                    imagesBefore >>
    /\ UNCHANGED cutVars

\* shutil.rmtree(temp_folder); print("全部处理完成！")
Cleanup ==
    /\ tpc = "finalise"
    /\ fidx = Len(image_files)
    /\ temp' = {}
    /\ tempExists' = FALSE
    /\ captions' = { c \in captions : c[1] # "temp" }
    /\ tpc' = "finished"
    /\ UNCHANGED << platform, folder, need_crop, to_rename, ridx, image_files, cidx,
                    tasks, described, keep_cropped, fidx, crashed, clobbered,
                    imagesBefore >>
    /\ UNCHANGED cutVars

TaggerNext ==
    \/ RenameScan
    \/ RenameStep
    \/ RenameDone
    \/ ListImages
    \/ MakeTemp
    \/ CropStep
    \/ Submit
    \/ \E i \in DOMAIN tasks : TaskRun(i)
    \/ \E i \in DOMAIN tasks : TaskWrite(i)
    \/ PoolJoin
    \/ Prompt
    \/ FinaliseStep
    \/ Cleanup

TaggerSpec == TaggerInit /\ [][TaggerNext]_vars

\* --------------------------------------------------- tagger.py, properties

\* C9: rename_images loses no image: no os.rename it performs targets a path
\* that exists, and the folder holds as many image files during and after it as
\* before, also when files named with three digits were there and passed over.
C9_RenameLosesNoImage ==
    /\ clobbered = {}
    /\ tpc \in {"renaming", "list", "crashed"} =>
          Cardinality(Images(folder)) = imagesBefore

\* C10: the images handed to the pool have pairwise different caption paths, no
\* two tasks of the pool have the same caption file open for writing, and when
\* the program has finished every image that was described has a caption of its
\* own description next to it.
C10_CaptionPathsDisjoint ==
    /\ \A i, j \in DOMAIN tasks :
          i # j => caption_name(image_files[i]) # caption_name(image_files[j])
    /\ \A i, j \in Writing :
          i # j => caption_name(image_files[i]) # caption_name(image_files[j])
    /\ tpc = "finished" =>
          \A i \in described :
              <<"folder", caption_name(image_files[i]), image_files[i]>> \in captions

\* The crop or the caption of some image failed.
SomeImageFailed ==
    /\ need_crop
    /\ tpc \in {"prompt", "finalise", "finished", "crashed"}
    /\ Len(tasks) > 0
    /\ \E i \in DOMAIN tasks : i \notin described

\* C5: with a target_size, after the crop or the caption of some image failed,
\* whatever the keep-cropped answer: no exception leaves batch_process_images,
\* and when it is over the finalisation loop has run for every image, every
\* described image has its caption next to its original, and the temp folder
\* is gone.
C5_BatchSurvivesImageFailure ==
    SomeImageFailed =>
        /\ crashed # "batch_process_images"
        /\ tpc \in {"finished", "crashed"} =>
              /\ fidx = Len(image_files)
              /\ ~tempExists
              /\ \A i \in described :
                    <<"folder", caption_name(image_files[i]), image_files[i]>>
                        \in captions

====
